---- MODULE Spec2Model ----
(***************************************************************************)
(* Kinetic schemes for wood pyrolysis: the two scripts of the repository.  *)
(*                                                                         *)
(*   approach_3.py          5-pathway wood/gas/tar/char network advanced   *)
(*                          by a fixed-step loop over a linspace grid.     *)
(*   liden-1988/liden_1988.py  3-pathway Liden scheme: the rate law        *)
(*                          dcdt_liden handed to scipy's solve_ivp, then   *)
(*                          the gas/char split and the two totals.         *)
(*                                                                         *)
(* Arithmetic is exact: a real is a normalised fraction [n, d] (d > 0,     *)
(* gcd(n, d) = 1), so two equal reals are equal records.  Floating-point   *)
(* rounding is not modelled.  The module-level constants of the scripts    *)
(* (rhow, dt, tmax, A, E, Tinf, ...) are read as inputs and drawn from     *)
(* small sets in Init.                                                     *)
(***************************************************************************)
EXTENDS Integers, Sequences, FiniteSets, TLC

(***************************************************************************)
(* Exact rational arithmetic (Python's +, -, *, / on numbers).             *)
(***************************************************************************)
Abs(x) == IF x < 0 THEN -x ELSE x

RECURSIVE GCD(_, _)
GCD(a, b) == IF b = 0 THEN a ELSE GCD(b, a % b)

LCM(a, b) == (a \div GCD(a, b)) * b

Sign(x) == IF x < 0 THEN -1 ELSE IF x = 0 THEN 0 ELSE 1

\* The fraction num/den (den # 0) in lowest terms with a positive denominator.
Rat(num, den) ==
  LET g == GCD(Abs(num), Abs(den))
  IN  [n |-> Sign(den) * (num \div g), d |-> Abs(den) \div g]

RInt(x) == [n |-> x, d |-> 1]

Zero == RInt(0)

One == RInt(1)

RNeg(x) == [n |-> -x.n, d |-> x.d]

RAdd(x, y) ==
  LET l == LCM(x.d, y.d)
  IN  Rat(x.n * (l \div x.d) + y.n * (l \div y.d), l)

RSub(x, y) == RAdd(x, RNeg(y))

RMul(x, y) ==
  LET g1 == GCD(Abs(x.n), y.d)
      g2 == GCD(Abs(y.n), x.d)
  IN  Rat((x.n \div g1) * (y.n \div g2), (x.d \div g2) * (y.d \div g1))

\* x / y for y # 0; Python raises ZeroDivisionError for y = 0 (see the callers).
RDiv(x, y) == RMul(x, Rat(y.d, y.n))

RLe(x, y) ==
  LET l == LCM(x.d, y.d)
  IN  x.n * (l \div x.d) <= y.n * (l \div y.d)

RLt(x, y) == RLe(x, y) /\ x # y

\* int(x): truncation towards zero.
Trunc(x) == IF x.n >= 0 THEN x.n \div x.d ELSE -((-x.n) \div x.d)

\* ceil(x), used only to state the sample count the specification asks for.
Ceil(x) == -((-x.n) \div x.d)

(***************************************************************************)
(* Bounds of the model.                                                    *)
(***************************************************************************)
\* Largest duration tmax (approach_3.py) tried, in seconds.
MaxTmax == 3

(***************************************************************************)
(* State.                                                                  *)
(***************************************************************************)
VARIABLES
  script,   \* which script runs: "approach_3" or "liden_1988"
  loc,      \* the statement block about to execute
  exc,      \* "none", or the exception that ended the run at loc
  \* approach_3.py: module-level constants, read as inputs
  rhow, T, A, E, dt, tmax,
  \* approach_3.py: computed names
  t, p, K, pw, pg, pt, pc, rww, rwg, rwt, rwc, rtg, rtc, i,
  pwn, pgn, ptn, pcn,
  \* liden_1988.py: constants read as inputs (the literals of lines 45-58
  \* and t_span[1])
  kin, t_end,
  \* liden_1988.py: the integration (sol.t, sol.y, sol.status, the solver's
  \* step size and the rate evaluations of its latest step attempt)
  sol_t, sol_y, status, h_abs, evals,
  \* liden_1988.py: computed names of lines 83-98
  tot1, wood, gas, tar, char, tot2

vars3 == <<rhow, T, A, E, dt, tmax, t, p, K, pw, pg, pt, pc,
           rww, rwg, rwt, rwc, rtg, rtc, i, pwn, pgn, ptn, pcn>>

varsL == <<kin, t_end, sol_t, sol_y, status, h_abs, evals,
           tot1, wood, gas, tar, char, tot2>>

vars == <<script, loc, exc, vars3, varsL>>

(***************************************************************************)
(* approach_3.py                                                           *)
(***************************************************************************)
Pathways == 1..5

\* R = 0.008314, universal gas constant, kJ/mol*K.
R == Rat(8314, 1000000)

\* np.exp(x).  exp is irrational; what the scripts rely on is that it is
\* positive, below 1 for x < 0, equal to 1 at 0 and above 1 for x > 0.  The
\* stand-in has exactly these properties.
NpExp(x) == IF x.n < 0 THEN Rat(1, 2) ELSE IF x.n = 0 THEN One ELSE RInt(2)

\* Mutant of DivisorIsZero: every non-positive temperature is refused.
DivisorNotPositive(Tk) == Tk <= 0

\* The division by R * T raises ZeroDivisionError exactly when R * T is 0.
DivisorIsZero(Tk) == RMul(R, RInt(Tk)) = Zero

\* A * np.exp(-E / (R * T)), for R * T # 0.
Arrhenius(Ai, Ei, Tk) ==
  RMul(RInt(Ai), NpExp(RDiv(RNeg(RInt(Ei)), RMul(R, RInt(Tk)))))

\* np.linspace(start, stop, num) with endpoint=True, for num >= 0: num evenly
\* spaced points, the step being (stop - start) / (num - 1); a single point
\* is start alone.
Linspace(start, stop, num) ==
  [j \in 1..num |->
     IF num = 1 THEN start
     ELSE RAdd(start, RMul(RInt(j - 1), RDiv(RSub(stop, start), RInt(num - 1))))]

\* num = tmax/dt handed to linspace: a float, which NumPy before 1.18 turns
\* into int(num).  The quotient is taken exactly, without float rounding.
NumSamples(tm, step) == Trunc(RDiv(RInt(tm), step))

\* Mutant of Rww: the sign of the wood consumption rate is lost.
RwwPositive(Kc, w) == RMul(RAdd(RAdd(Kc[1], Kc[2]), Kc[3]), w)

\* Mutant of Rtg: the tar -> gas rate takes the tar -> char constant.
RtgUsesK5(Kc, tr) == RMul(Kc[5], tr)

\* The rates of lines 62-67 and 71-76, from the state they are evaluated at.
Rww(Kc, w) == RMul(RNeg(RAdd(RAdd(Kc[1], Kc[2]), Kc[3])), w)

Rwg(Kc, w) == RMul(Kc[1], w)

Rwt(Kc, w) == RMul(Kc[2], w)

Rwc(Kc, w) == RMul(Kc[3], w)

Rtg(Kc, tr) == RMul(Kc[4], tr)

Rtc(Kc, tr) == RMul(Kc[5], tr)

\* Mutant of NextPt: the tar produced from wood is subtracted.
NextPtSignFlip(tr, rt1, rg2, rc2, step) ==
  RAdd(tr, RMul(RSub(RSub(RNeg(rt1), rg2), rc2), step))

\* Mutant of NextPc: the char produced from tar is left out.
NextPcDropsTar(c, rc1, rc2, step) == RAdd(c, RMul(rc1, step))

\* The updates of lines 77-80.
NextPw(w, rw, step) == RAdd(w, RMul(rw, step))

NextPg(g, rg1, rg2, step) == RAdd(g, RMul(RAdd(rg1, rg2), step))

NextPt(tr, rt1, rg2, rc2, step) == RAdd(tr, RMul(RSub(RSub(rt1, rg2), rc2), step))

NextPc(c, rc1, rc2, step) == RAdd(c, RMul(RAdd(rc1, rc2), step))

\* x/rhow for every x of a list (lines 83-86).
Normalized(xs, rho) == [j \in 1..Len(xs) |-> RDiv(xs[j], RInt(rho))]

\* Inputs.  Physical kinetic parameters: A in {1, 4}, E = 1, T = 1, which
\* gives rate constants 1/2 and 2.
BaseA == [j \in Pathways |-> 1]

BaseE == [j \in Pathways |-> 1]

ValidKinetics ==
  {[A |-> a, E |-> BaseE, T |-> 1] : a \in [Pathways -> {1, 4}]}

\* One non-physical parameter: a non-positive A or E of one pathway, or a
\* non-positive temperature.
FaultyKinetics ==
  {[A |-> [BaseA EXCEPT ![j] = v], E |-> BaseE, T |-> 1] :
      j \in Pathways, v \in {0, -1}}
  \cup {[A |-> BaseA, E |-> [BaseE EXCEPT ![j] = v], T |-> 1] :
      j \in Pathways, v \in {0, -1}}
  \cup {[A |-> BaseA, E |-> BaseE, T |-> v] : v \in {0, -1}}

DtValues == {Rat(1, 2), Rat(2, 3), One}

RhowValues == {0, 1, 2}

Start3 ==
  /\ script = "approach_3"
  /\ loc = "grid"
  /\ exc = "none"
  /\ \E par \in ValidKinetics \cup FaultyKinetics :
       /\ A = par.A
       /\ E = par.E
       /\ T = par.T
  /\ rhow \in RhowValues
  /\ dt \in DtValues
  /\ tmax \in 1..MaxTmax
  /\ t = <<>>
  /\ p = 0
  /\ K = <<>>
  /\ pw = <<>> /\ pg = <<>> /\ pt = <<>> /\ pc = <<>>
  /\ rww = <<>> /\ rwg = <<>> /\ rwt = <<>> /\ rwc = <<>>
  /\ rtg = <<>> /\ rtc = <<>>
  /\ i = 0
  /\ pwn = <<>> /\ pgn = <<>> /\ ptn = <<>> /\ pcn = <<>>

Running(s, l) == script = s /\ loc = l /\ exc = "none"

\* Lines 41-44.  NumPy before 1.18 truncates the float num; later versions
\* raise TypeError for it.
TimeGrid ==
  /\ Running("approach_3", "grid")
  /\ \/ /\ t' = Linspace(Zero, RInt(tmax), NumSamples(tmax, dt))
        /\ p' = Len(t')
        /\ loc' = "K"
        /\ exc' = exc
     \/ /\ exc' = "TypeError"
        /\ UNCHANGED <<t, p, loc>>
  /\ UNCHANGED <<script, rhow, T, A, E, dt, tmax, K, pw, pg, pt, pc,
                 rww, rwg, rwt, rwc, rtg, rtc, i, pwn, pgn, ptn, pcn>>
  /\ UNCHANGED varsL

\* Lines 49-54.
RateConstants ==
  /\ Running("approach_3", "K")
  /\ IF DivisorIsZero(T)
       THEN /\ exc' = "ZeroDivisionError"
            /\ UNCHANGED <<K, loc>>
       ELSE /\ K' = [j \in Pathways |-> Arrhenius(A[j], E[j], T)]
            /\ loc' = "init"
            /\ exc' = exc
  /\ UNCHANGED <<script, rhow, T, A, E, dt, tmax, t, p, pw, pg, pt, pc,
                 rww, rwg, rwt, rwc, rtg, rtc, i, pwn, pgn, ptn, pcn>>
  /\ UNCHANGED varsL

\* Lines 56-67.
InitialState ==
  /\ Running("approach_3", "init")
  /\ pw' = <<RInt(rhow)>>
  /\ pg' = <<Zero>>
  /\ pt' = <<Zero>>
  /\ pc' = <<Zero>>
  /\ rww' = <<Rww(K, pw'[1])>>
  /\ rwg' = <<Rwg(K, pw'[1])>>
  /\ rwt' = <<Rwt(K, pw'[1])>>
  /\ rwc' = <<Rwc(K, pw'[1])>>
  /\ rtg' = <<Rtg(K, pt'[1])>>
  /\ rtc' = <<Rtc(K, pt'[1])>>
  /\ i' = 1
  /\ loc' = "loop"
  /\ UNCHANGED <<script, exc, rhow, T, A, E, dt, tmax, t, p, K,
                 pwn, pgn, ptn, pcn>>
  /\ UNCHANGED varsL

\* Lines 70-80, one pass of the body for the index i of range(1, p).  The
\* Python lists are 0-based: Python's x[i-1] is the i-th element here and
\* the value appended in this pass is Python's x[i].
LoopStep ==
  /\ Running("approach_3", "loop")
  /\ i < p
  /\ rww' = Append(rww, Rww(K, pw[i]))
  /\ rwg' = Append(rwg, Rwg(K, pw[i]))
  /\ rwt' = Append(rwt, Rwt(K, pw[i]))
  /\ rwc' = Append(rwc, Rwc(K, pw[i]))
  /\ rtg' = Append(rtg, Rtg(K, pt[i]))
  /\ rtc' = Append(rtc, Rtc(K, pt[i]))
  /\ pw' = Append(pw, NextPw(pw[i], rww'[i + 1], dt))
  /\ pg' = Append(pg, NextPg(pg[i], rwg'[i + 1], rtg'[i + 1], dt))
  /\ pt' = Append(pt, NextPt(pt[i], rwt'[i + 1], rtg'[i + 1], rtc'[i + 1], dt))
  /\ pc' = Append(pc, NextPc(pc[i], rwc'[i + 1], rtc'[i + 1], dt))
  /\ i' = i + 1
  /\ UNCHANGED <<script, loc, exc, rhow, T, A, E, dt, tmax, t, p, K,
                 pwn, pgn, ptn, pcn>>
  /\ UNCHANGED varsL

\* range(1, p) is exhausted.
LoopExit ==
  /\ Running("approach_3", "loop")
  /\ i >= p
  /\ loc' = "normalize"
  /\ UNCHANGED <<script, exc, vars3, varsL>>

\* Lines 83-86; x/rhow raises ZeroDivisionError for rhow = 0.
Normalize ==
  /\ Running("approach_3", "normalize")
  /\ IF rhow = 0
       THEN /\ exc' = "ZeroDivisionError"
            /\ UNCHANGED <<loc, pwn, pgn, ptn, pcn>>
       ELSE /\ pwn' = Normalized(pw, rhow)
            /\ pgn' = Normalized(pg, rhow)
            /\ ptn' = Normalized(pt, rhow)
            /\ pcn' = Normalized(pc, rhow)
            /\ loc' = "done"
            /\ exc' = exc
  /\ UNCHANGED <<script, rhow, T, A, E, dt, tmax, t, p, K, pw, pg, pt, pc,
                 rww, rwg, rwt, rwc, rtg, rtc, i>>
  /\ UNCHANGED varsL


(***************************************************************************)
(* liden-1988/liden_1988.py                                                *)
(***************************************************************************)
\* rgas = 0.008314, universal gas constant [kJ/(mol K)].
rgas == Rat(8314, 1000000)

\* Mutant of K3Of: the tar branch is not taken out of the wood decay.
K3Whole(k, k1) == k

\* k3 = k - k1, wood -> (gas + char).
K3Of(k, k1) == RSub(k, k1)

\* The rate constants of lines 56-59 for the parameters par: pre-factors
\* par.a, activation energies par.e (1: wood decay, 2: tar -> gas),
\* temperature par.temp and tar yield par.phistar.
LidenConstants(par) ==
  LET k  == RMul(RInt(par.a[1]),
                 NpExp(RDiv(RNeg(RInt(par.e[1])), RMul(rgas, RInt(par.temp)))))
      k1 == RMul(k, par.phistar)
      k2 == RMul(RInt(par.a[2]),
                 NpExp(RDiv(RNeg(RInt(par.e[2])), RMul(rgas, RInt(par.temp)))))
  IN  [k |-> k, k1 |-> k1, k2 |-> k2, k3 |-> K3Of(k, k1)]

\* The divisions by rgas * temp of lines 56 and 58 raise ZeroDivisionError.
LidenRaises(par) == RMul(rgas, RInt(par.temp)) = Zero

\* dcdt_liden(t, y) for rgas * temp # 0: <<dwood_dt, dgas_dt, dtar_dt,
\* dgaschar_dt>>.  Python's y[0], y[2] are y[1], y[3] here.
dcdt_liden(tt, y, par) ==
  LET c  == LidenConstants(par)
      wd == y[1]
      tr == y[3]
  IN  << RNeg(RMul(c.k, wd)),
         RMul(c.k2, tr),
         RSub(RMul(c.k1, wd), RMul(c.k2, tr)),
         RMul(c.k3, wd) >>

\* y + h * f, componentwise.
VecAxpy(y, h, f) == [j \in 1..4 |-> RAdd(y[j], RMul(h, f[j]))]

\* b1 * f1 + b2 * f2, componentwise.
VecComb(b1, f1, b2, f2) == [j \in 1..4 |-> RAdd(RMul(b1, f1[j]), RMul(b2, f2[j]))]

\* solve_ivp's stepper is an explicit Runge-Kutta method: it forms the new
\* sample as y + h * (weighted mean of rates), each rate being dcdt_liden at
\* y plus h times a combination of the rates already evaluated.  The
\* six-stage Dormand-Prince tableau of RK45 is replaced by two-stage tableaus
\* (a21, b1, b2) with b1 + b2 = 1: Euler, Heun and the midpoint rule.
Tableaus ==
  { [a21 |-> One, b1 |-> One, b2 |-> Zero],
    [a21 |-> One, b1 |-> Rat(1, 2), b2 |-> Rat(1, 2)],
    [a21 |-> Rat(1, 2), b1 |-> Zero, b2 |-> One] }

\* One step attempt of size h from (tt, y): the new state and the rate
\* evaluations made, each with the state it was made at.
RKStep(tt, y, h, tab, par) ==
  LET f1 == dcdt_liden(tt, y, par)
      y2 == VecAxpy(y, RMul(h, tab.a21), f1)
      f2 == dcdt_liden(RAdd(tt, RMul(h, tab.a21)), y2, par)
  IN  [y |-> VecAxpy(y, h, VecComb(tab.b1, f1, tab.b2, f2)),
       evals |-> << [y |-> y, f |-> f1], [y |-> y2, f |-> f2] >>]

\* The stepper gives up below this step size (TOO_SMALL_STEP).
MinStep == One

\* y0 = [1, 0, 0, 0].
y0 == << One, Zero, Zero, Zero >>

\* fc = 0.14, the module-level phistar = 0.703, c3 and g3 (lines 86-89).
fc == Rat(14, 100)

phistar == Rat(703, 1000)

c3 == RDiv(fc, RSub(One, phistar))

g3 == RSub(One, c3)

\* sol.y[r] for the Python row r = 0..3: one component over all samples.
SolRow(ys, r) == [j \in 1..Len(ys) |-> ys[j][r + 1]]

\* Elementwise a + b and c * a of NumPy arrays.
ArrAdd(xs, zs) == [j \in 1..Len(xs) |-> RAdd(xs[j], zs[j])]

ArrScale(c, xs) == [j \in 1..Len(xs) |-> RMul(c, xs[j])]

\* Mutant of GasOf: the char fraction is used for the gas share.
GasOfCharFraction(ys) == ArrAdd(SolRow(ys, 1), ArrScale(c3, SolRow(ys, 3)))

\* Lines 83, 92-95, 98.
Tot1Of(ys) ==
  ArrAdd(ArrAdd(ArrAdd(SolRow(ys, 0), SolRow(ys, 1)), SolRow(ys, 2)), SolRow(ys, 3))

WoodOf(ys) == SolRow(ys, 0)

GasOf(ys) == ArrAdd(SolRow(ys, 1), ArrScale(g3, SolRow(ys, 3)))

TarOf(ys) == SolRow(ys, 2)

CharOf(ys) == ArrScale(c3, SolRow(ys, 3))

Tot2Of(w, g, tr, c) == ArrAdd(ArrAdd(ArrAdd(w, g), tr), c)

\* Inputs.  Physical parameters give k and k2 in {1, 2}.
LidenValid ==
  {[a |-> aa, e |-> <<1, 1>>, temp |-> 1, phistar |-> ph] :
      aa \in [1..2 -> {2, 4}], ph \in {Rat(1, 2), Rat(3, 4)}}

LidenFaulty ==
  {[a |-> [<<2, 2>> EXCEPT ![j] = v], e |-> <<1, 1>>, temp |-> 1,
    phistar |-> Rat(1, 2)] : j \in 1..2, v \in {0, -1}}
  \cup {[a |-> <<2, 2>>, e |-> [<<1, 1>> EXCEPT ![j] = v], temp |-> 1,
         phistar |-> Rat(1, 2)] : j \in 1..2, v \in {0, -1}}
  \cup {[a |-> <<2, 2>>, e |-> <<1, 1>>, temp |-> v, phistar |-> Rat(1, 2)] :
         v \in {0, -1}}

\* Largest end of the time span t_span tried, in seconds.
MaxTEnd == 3

StartL ==
  /\ script = "liden_1988"
  /\ loc = "solve"
  /\ exc = "none"
  /\ kin \in LidenValid \cup LidenFaulty
  /\ t_end \in 1..MaxTEnd
  /\ sol_t = <<>>
  /\ sol_y = <<>>
  /\ status = "unset"
  /\ h_abs = Zero
  /\ evals = <<>>
  /\ tot1 = <<>> /\ wood = <<>> /\ gas = <<>> /\ tar = <<>> /\ char = <<>>
  /\ tot2 = <<>>

\* The names of a script that does not run.
Idle3 ==
  /\ rhow = 0 /\ T = 0 /\ A = <<>> /\ E = <<>> /\ dt = Zero /\ tmax = 0
  /\ t = <<>> /\ p = 0 /\ K = <<>>
  /\ pw = <<>> /\ pg = <<>> /\ pt = <<>> /\ pc = <<>>
  /\ rww = <<>> /\ rwg = <<>> /\ rwt = <<>> /\ rwc = <<>>
  /\ rtg = <<>> /\ rtc = <<>>
  /\ i = 0
  /\ pwn = <<>> /\ pgn = <<>> /\ ptn = <<>> /\ pcn = <<>>

IdleL ==
  /\ kin = [a |-> <<>>, e |-> <<>>, temp |-> 0, phistar |-> Zero]
  /\ t_end = 0
  /\ sol_t = <<>> /\ sol_y = <<>> /\ status = "unset" /\ h_abs = Zero
  /\ evals = <<>>
  /\ tot1 = <<>> /\ wood = <<>> /\ gas = <<>> /\ tar = <<>> /\ char = <<>>
  /\ tot2 = <<>>

\* Line 80, entry of solve_ivp: the solver evaluates dcdt_liden at
\* (t0, y0), records the first sample and selects an initial step size.
SolveStart ==
  /\ Running("liden_1988", "solve")
  /\ IF LidenRaises(kin)
       THEN /\ exc' = "ZeroDivisionError"
            /\ UNCHANGED <<loc, sol_t, sol_y, h_abs, evals>>
       ELSE /\ sol_t' = <<Zero>>
            /\ sol_y' = <<y0>>
            /\ evals' = << [y |-> y0, f |-> dcdt_liden(Zero, y0, kin)] >>
            /\ h_abs' \in {One, RInt(2)}
            /\ loc' = "integrating"
            /\ exc' = exc
  /\ UNCHANGED <<script, vars3, kin, t_end, status,
                 tot1, wood, gas, tar, char, tot2>>

Last(xs) == xs[Len(xs)]

\* t + h clipped to the end of the span.
ClipStep(tt, h, tb) == IF RLe(RAdd(tt, h), tb) THEN RAdd(tt, h) ELSE tb

\* Line 80, one accepted step: the error estimate is within tolerance, the
\* sample is recorded, and the integration finishes (status 0) when the end
\* of the span is reached; otherwise the step size is kept or doubled.
StepAccept ==
  /\ Running("liden_1988", "integrating")
  /\ RLe(MinStep, h_abs)
  /\ \E tab \in Tableaus :
       LET tcur == Last(sol_t)
           tnew == ClipStep(tcur, h_abs, RInt(t_end))
           st   == RKStep(tcur, Last(sol_y), RSub(tnew, tcur), tab, kin)
       IN  /\ sol_t' = Append(sol_t, tnew)
           /\ sol_y' = Append(sol_y, st.y)
           /\ evals' = st.evals
           /\ IF tnew = RInt(t_end)
                THEN /\ status' = "0"
                     /\ loc' = "post"
                     /\ h_abs' = h_abs
                ELSE /\ h_abs' \in {h_abs, RInt(2)}
                     /\ UNCHANGED <<status, loc>>
  /\ UNCHANGED <<script, exc, vars3, kin, t_end,
                 tot1, wood, gas, tar, char, tot2>>

\* Line 80, one rejected step attempt: the error estimate exceeds the
\* tolerance, nothing is recorded and the step size is halved.
StepReject ==
  /\ Running("liden_1988", "integrating")
  /\ RLe(MinStep, h_abs)
  /\ \E tab \in Tableaus :
       LET tcur == Last(sol_t)
           tnew == ClipStep(tcur, h_abs, RInt(t_end))
       IN  evals' = RKStep(tcur, Last(sol_y), RSub(tnew, tcur), tab, kin).evals
  /\ h_abs' = RMul(h_abs, Rat(1, 2))
  /\ UNCHANGED <<script, loc, exc, vars3, kin, t_end, sol_t, sol_y, status,
                 tot1, wood, gas, tar, char, tot2>>

\* Line 80, the step size fell below the minimum: solve_ivp stops and
\* returns the samples recorded so far with status -1 ("Required step size
\* is less than spacing between numbers"); it raises nothing.
StepFail ==
  /\ Running("liden_1988", "integrating")
  /\ RLt(h_abs, MinStep)
  /\ status' = "-1"
  /\ loc' = "post"
  /\ UNCHANGED <<script, exc, vars3, kin, t_end, sol_t, sol_y, h_abs, evals,
                 tot1, wood, gas, tar, char, tot2>>

\* Mutant of PostProcess: a trajectory that stopped short of t_end is
\* discarded instead of being post-processed.
PostProcessDiscardsPartial ==
  /\ Running("liden_1988", "post")
  /\ LET ys == IF status = "0" THEN sol_y ELSE <<>>
     IN  /\ tot1' = Tot1Of(ys)
         /\ wood' = WoodOf(ys)
         /\ gas' = GasOf(ys)
         /\ tar' = TarOf(ys)
         /\ char' = CharOf(ys)
         /\ tot2' = Tot2Of(wood', gas', tar', char')
  /\ loc' = "done"
  /\ UNCHANGED <<script, exc, vars3, kin, t_end, sol_t, sol_y, status,
                 h_abs, evals>>

\* Lines 83-98.
PostProcess ==
  /\ Running("liden_1988", "post")
  /\ tot1' = Tot1Of(sol_y)
  /\ wood' = WoodOf(sol_y)
  /\ gas' = GasOf(sol_y)
  /\ tar' = TarOf(sol_y)
  /\ char' = CharOf(sol_y)
  /\ tot2' = Tot2Of(wood', gas', tar', char')
  /\ loc' = "done"
  /\ UNCHANGED <<script, exc, vars3, kin, t_end, sol_t, sol_y, status,
                 h_abs, evals>>

(***************************************************************************)
(* The two scripts.                                                        *)
(***************************************************************************)
Init ==
  \/ Start3 /\ IdleL
  \/ StartL /\ Idle3

Next ==
  \/ TimeGrid
  \/ RateConstants
  \/ InitialState
  \/ LoopStep
  \/ LoopExit
  \/ Normalize
  \/ SolveStart
  \/ StepAccept
  \/ StepReject
  \/ StepFail
  \/ PostProcess

Spec == Init /\ [][Next]_vars

(***************************************************************************)
(* Properties.  Sample i of a Python list (0-based) is element i + 1 here. *)
(***************************************************************************)
Sum4(a, b, c, d) == RAdd(RAdd(RAdd(a, b), c), d)

Fixed == script = "approach_3"

Liden == script = "liden_1988"

\* The fixed-step loop has run to its end.
LoopOver == Fixed /\ loc \in {"normalize", "done"}

KSet == Fixed /\ K # <<>>

PositiveK == \A j \in Pathways : RLt(Zero, K[j])

\* Physical kinetic parameters: positive pre-factors, activation energies
\* and temperature.
Physical3 == Fixed /\ T > 0 /\ \A j \in Pathways : A[j] > 0 /\ E[j] > 0

PhysicalL == Liden /\ kin.temp > 0 /\ \A j \in 1..2 : kin.a[j] > 0 /\ kin.e[j] > 0

WoodStepSmall == RLe(RMul(RAdd(RAdd(K[1], K[2]), K[3]), dt), One)

TarStepSmall == RLe(RMul(RAdd(K[4], K[5]), dt), One)

\* C1: in the fixed-step solve the four species lists grow together and at
\* every sample pw + pg + pt + pc equals the total of the first sample,
\* which is rhow, whatever the rate constants and the step are.
MassConservedFixedStep ==
  Fixed =>
    /\ Len(pg) = Len(pw) /\ Len(pt) = Len(pw) /\ Len(pc) = Len(pw)
    /\ \A j \in 1..Len(pw) :
         /\ Sum4(pw[j], pg[j], pt[j], pc[j]) = Sum4(pw[1], pg[1], pt[1], pc[1])
         /\ Sum4(pw[j], pg[j], pt[j], pc[j]) = RInt(rhow)

\* C1 witness: a finished loop of at least four samples in which gas, tar
\* and char have all been produced.
MassConservedWitness ==
  /\ LoopOver
  /\ Len(pw) >= 4
  /\ pg[4] # Zero /\ pt[4] # Zero /\ pc[4] # Zero

\* A run on physical parameters over a duration of at least two steps.
OrdinaryRun ==
  LoopOver /\ Physical3 /\ rhow > 0 /\ RLe(RMul(RInt(2), dt), RInt(tmax))

\* C3 (as claimed): once the loop is over, t and every species list hold
\* ceil(tmax/dt) + 1 samples, the first time being 0 and the last tmax.
SampleCountIsCeilPlusOne ==
  OrdinaryRun =>
    LET n == Ceil(RDiv(RInt(tmax), dt)) + 1
    IN  /\ Len(t) = n
        /\ Len(pw) = n /\ Len(pg) = n /\ Len(pt) = n /\ Len(pc) = n
        /\ t[1] = Zero
        /\ t[n] = RInt(tmax)

\* C4 (as claimed): the time of sample i is i * dt: the times start at 0,
\* increase strictly by exactly the dt of the state update, and end at tmax.
SampleTimeIsIndexTimesDt ==
  OrdinaryRun =>
    /\ Len(t) = Len(pw)
    /\ \A j \in 1..Len(t) : t[j] = RMul(RInt(j - 1), dt)
    /\ \A j \in 2..Len(t) : RLt(t[j - 1], t[j]) /\ RSub(t[j], t[j - 1]) = dt
    /\ t[1] = Zero
    /\ t[Len(t)] = RInt(tmax)

\* C7: with positive rate constants, (K1+K2+K3)*dt <= 1 and (K4+K5)*dt <= 1,
\* starting from pure wood with rhow >= 0, every entry of pw, pg, pt and pc
\* is >= 0 at every sample.
NonNegativeForSmallStep ==
  KSet /\ PositiveK /\ WoodStepSmall /\ TarStepSmall /\ rhow >= 0 =>
    \A j \in 1..Len(pw) :
      /\ RLe(Zero, pw[j]) /\ RLe(Zero, pg[j])
      /\ RLe(Zero, pt[j]) /\ RLe(Zero, pc[j])

\* C7 witness: a finished loop under the step condition in which tar has
\* been produced and partly consumed.
NonNegativeWitness ==
  /\ LoopOver /\ PositiveK /\ WoodStepSmall /\ TarStepSmall
  /\ rhow > 0
  /\ Len(pw) >= 4
  /\ RLt(Zero, pt[3]) /\ RLt(Zero, pw[4])

\* C10: every sample after the first is the previous sample plus dt times
\* the rate at the previous sample, the rates being
\*   wood -(K1+K2+K3)*pw,  gas K1*pw + K4*pt,
\*   tar  K2*pw - (K4+K5)*pt,  char K3*pw + K5*pt.
LaggedEulerUpdate ==
  Fixed =>
    \A j \in 2..Len(pw) :
      LET w  == pw[j - 1]
          tr == pt[j - 1]
      IN  /\ pw[j] = RAdd(w, RMul(dt,
                       RNeg(RMul(RAdd(RAdd(K[1], K[2]), K[3]), w))))
          /\ pg[j] = RAdd(pg[j - 1], RMul(dt,
                       RAdd(RMul(K[1], w), RMul(K[4], tr))))
          /\ pt[j] = RAdd(tr, RMul(dt,
                       RSub(RMul(K[2], w), RMul(RAdd(K[4], K[5]), tr))))
          /\ pc[j] = RAdd(pc[j - 1], RMul(dt,
                       RAdd(RMul(K[3], w), RMul(K[5], tr))))

\* C10 witness: a third sample computed from a previous sample that holds
\* tar, with distinct tar -> gas and tar -> char constants.
LaggedEulerWitness ==
  /\ Fixed
  /\ Len(pw) >= 3
  /\ pt[2] # Zero
  /\ K[4] # K[5]
  /\ K[1] # K[2]

\* C8 (as claimed): for positive rate constants and any step, pw never
\* increases from one sample to the next; and the wood rate returned by
\* dcdt_liden is <= 0 at every state the integrator evaluates it at.
WoodNonIncreasingAnyStep ==
  /\ Physical3 /\ rhow >= 0 =>
       \A j \in 2..Len(pw) : RLe(pw[j], pw[j - 1])
  /\ PhysicalL =>
       \A j \in 1..Len(evals) : RLe(evals[j].f[1], Zero)

\* C8 (amended): pw never increases when (K1+K2+K3)*dt <= 1; the wood rate
\* of dcdt_liden is <= 0 at every evaluated state whose wood is >= 0, for a
\* positive pre-factor.
WoodNonIncreasingSmallStep ==
  /\ KSet /\ PositiveK /\ WoodStepSmall /\ rhow >= 0 =>
       \A j \in 2..Len(pw) : RLe(pw[j], pw[j - 1])
  /\ Liden /\ kin.temp # 0 /\ kin.a[1] > 0 =>
       \A j \in 1..Len(evals) :
         RLe(Zero, evals[j].y[1]) => RLe(evals[j].f[1], Zero)

\* C8 witness: wood strictly decreasing over a finished loop under the
\* step condition.
WoodNonIncreasingWitness ==
  /\ LoopOver /\ PositiveK /\ WoodStepSmall
  /\ Len(pw) >= 4
  /\ RLt(pw[4], pw[3]) /\ RLt(pw[3], pw[2])

\* States at which the rate law is probed besides those the solver visits.
ProbeStates ==
  LET V == {RInt(-1), Zero, Rat(1, 2), One}
  IN  {<<a, b, c, d>> : a \in V, b \in V, c \in V, d \in V}

\* C2: the four rates returned by dcdt_liden sum to zero at every state
\* (those the solver evaluates and the probe states), every recorded sample
\* of the integration sums to 1, and so does every entry of tot1.
LidenMassConserved ==
  Liden /\ kin.temp # 0 =>
    /\ \A j \in 1..Len(evals) :
         LET f == evals[j].f IN Sum4(f[1], f[2], f[3], f[4]) = Zero
    /\ loc = "solve" =>
         \A y \in ProbeStates :
           LET f == dcdt_liden(Zero, y, kin)
           IN  Sum4(f[1], f[2], f[3], f[4]) = Zero
    /\ \A j \in 1..Len(sol_y) :
         Sum4(sol_y[j][1], sol_y[j][2], sol_y[j][3], sol_y[j][4]) = One
    /\ \A j \in 1..Len(tot1) : tot1[j] = One

\* C2 witness: a successful integration of at least three samples with
\* wood consumed and tar present, post-processed.
LidenMassConservedWitness ==
  /\ PhysicalL /\ loc = "done" /\ status = "0"
  /\ Len(sol_y) >= 3
  /\ Len(tot1) = Len(sol_y)
  /\ sol_y[3][1] # One /\ sol_y[3][3] # Zero /\ sol_y[3][4] # Zero

\* C9: after the post-processing, at every sample char = c3 * gaschar and
\* gas = (ODE gas) + g3 * gaschar with c3 = fc / (1 - phistar) = 140/297 and
\* g3 = 1 - c3 = 157/297, wood and tar are the ODE's, and tot2 = tot1.
GasCharSplit ==
  Liden /\ loc = "done" =>
    /\ c3 = Rat(140, 297)
    /\ g3 = Rat(157, 297)
    /\ Len(wood) = Len(sol_y) /\ Len(gas) = Len(sol_y) /\ Len(tar) = Len(sol_y)
    /\ Len(char) = Len(sol_y) /\ Len(tot1) = Len(sol_y) /\ Len(tot2) = Len(sol_y)
    /\ \A j \in 1..Len(sol_y) :
         /\ wood[j] = sol_y[j][1]
         /\ tar[j] = sol_y[j][3]
         /\ char[j] = RMul(Rat(140, 297), sol_y[j][4])
         /\ gas[j] = RAdd(sol_y[j][2], RMul(Rat(157, 297), sol_y[j][4]))
         /\ tot2[j] = tot1[j]

\* C9 witness: a post-processed trajectory whose third sample holds both
\* ODE gas and lumped gas+char.
GasCharSplitWitness ==
  /\ Liden /\ loc = "done"
  /\ Len(sol_y) >= 3
  /\ sol_y[3][2] # Zero /\ sol_y[3][4] # Zero
  /\ char[3] # Zero /\ gas[3] # sol_y[3][2]

NonPhysical3 ==
  Fixed /\ (T <= 0 \/ \E j \in Pathways : A[j] <= 0 \/ E[j] <= 0)

NonPhysicalL ==
  Liden /\ (kin.temp <= 0 \/ \E j \in 1..2 : kin.a[j] <= 0 \/ kin.e[j] <= 0)

\* C5 (as claimed): with a non-positive A, E or temperature the run ends
\* with InvalidParameter before integration: no rate constant is computed
\* or used and no sample beyond the initial state exists.
InvalidParameterRejected ==
  /\ NonPhysical3 =>
       /\ K = <<>>
       /\ Len(pw) <= 1
       /\ exc \in {"none", "TypeError", "InvalidParameter"}
  /\ NonPhysicalL =>
       /\ evals = <<>>
       /\ Len(sol_y) <= 1
       /\ exc \in {"none", "InvalidParameter"}

\* C5 (amended): nothing validates the parameters and no InvalidParameter
\* exists.  A temperature of 0 ends the run with ZeroDivisionError at the
\* first division by R*T, before any sample exists, and nothing else about
\* the parameters raises: for any other temperature every rate constant is
\* computed with the sign of its pre-factor and the whole trajectory is
\* produced, also from non-positive A, E or negative T.
NoParameterValidation ==
  /\ Fixed =>
       /\ exc # "InvalidParameter"
       /\ loc = "K" /\ exc = "ZeroDivisionError" => T = 0
       /\ T = 0 => loc \in {"grid", "K"} /\ K = <<>> /\ pw = <<>>
       /\ T # 0 /\ loc \notin {"grid", "K"} =>
            \A j \in Pathways : Sign(K[j].n) = Sign(A[j])
       /\ T # 0 /\ loc \in {"normalize", "done"} =>
            Len(pw) = (IF p = 0 THEN 1 ELSE p)
  /\ Liden =>
       /\ exc # "InvalidParameter"
       /\ exc = "ZeroDivisionError" => kin.temp = 0
       /\ kin.temp = 0 => loc = "solve" /\ sol_y = <<>> /\ evals = <<>>
       /\ kin.temp # 0 /\ loc # "solve" =>
            /\ exc = "none"
            /\ Len(sol_y) >= 1
            /\ Len(evals) >= 1

\* C5 witness: a whole fixed-step trajectory computed from a non-positive
\* pre-factor.
NoParameterValidationWitness ==
  /\ NonPhysical3 /\ loc = "done"
  /\ \E j \in Pathways : A[j] <= 0 /\ RLe(K[j], Zero)
  /\ Len(pw) >= 3

\* C6 (as claimed): an integration that ends before t_end is never
\* post-processed: tot1, the gas/char split and tot2 stay uncomputed.
FailedIntegrationDiscarded ==
  PhysicalL /\ status = "-1" =>
    /\ loc # "done"
    /\ tot1 = <<>> /\ tot2 = <<>>
    /\ wood = <<>> /\ gas = <<>> /\ tar = <<>> /\ char = <<>>

\* C6 (amended): an integration that ends before t_end raises nothing: it
\* returns status -1 with the samples recorded so far, the last of them
\* before t_end, and tot1, the split and tot2 are computed for every one of
\* those samples exactly as for a complete trajectory.
FailedIntegrationPostProcessed ==
  Liden =>
    /\ exc # "IntegrationFailure"
    /\ status = "-1" =>
         /\ exc = "none"
         /\ loc \in {"post", "done"}
         /\ Len(sol_t) >= 1
         /\ RLt(sol_t[Len(sol_t)], RInt(t_end))
    /\ loc = "done" =>
         /\ status \in {"0", "-1"}
         /\ Len(tot1) = Len(sol_t) /\ Len(tot2) = Len(sol_t)
         /\ Len(gas) = Len(sol_t) /\ Len(char) = Len(sol_t)
         /\ Len(sol_t) = Len(sol_y)

\* C6 witness: a failed integration of two samples, post-processed.
FailedIntegrationWitness ==
  /\ PhysicalL /\ status = "-1" /\ loc = "done"
  /\ Len(sol_t) >= 2
  /\ RLt(sol_t[Len(sol_t)], RInt(t_end))
  /\ Len(tot2) = Len(sol_t)

====
